---- MODULE Spec2Model ----
(***************************************************************************)
(* Model of the two Flask services of the repository:                      *)
(*   server/app.py          speech gateway (voice settings + synthesis)    *)
(*   server/rasa_server.py  dialogue gateway (webhook on a shared loop)    *)
(*                                                                         *)
(* Python values are records [k, n, s]: k is the type, n the numeric       *)
(* payload (floats in tenths), s the string payload.  A string is a        *)
(* sequence of symbols; a word that the code never takes apart is one      *)
(* symbol.                                                                 *)
(***************************************************************************)
EXTENDS Integers, Sequences, FiniteSets, TLC

VARIABLES
    environ,          \* os.environ, restricted to the variables app.py uses
    eleven_labs_key,  \* app.py module global, read once at import
    sdk_key,          \* the key held by the elevenlabs SDK (set_api_key)
    last,             \* the last request the speech gateway served
    hpc,              \* settings race: each handler thread's position
    hreq,             \* settings race: each handler thread's request body
    hread,            \* settings race: the texts a thread has read or written so far
    hresp,            \* settings race: each handler thread's response
    loop,             \* rasa_server.py's event loop: [thread_id, stopping, ready]
    fut,              \* the Task run_until_complete makes for each request
    dpc,              \* webhook: each handler thread's position
    dreq,             \* webhook: each handler thread's request body
    dntodo,           \* webhook: callbacks left in the thread's _run_once pass
    dexc,             \* webhook: the exception a thread is propagating ("" for none)
    dresp             \* webhook: each handler thread's response

speechVars == <<environ, eleven_labs_key, sdk_key, last>>

raceVars == <<hpc, hreq, hread, hresp>>

webhookVars == <<loop, fut, dpc, dreq, dntodo, dexc, dresp>>

vars == <<speechVars, raceVars, webhookVars>>

(***************************************************************************)
(* Python values                                                           *)
(***************************************************************************)
PyNone == [k |-> "null", n |-> 0, s |-> <<>>]

PyAbsent == [k |-> "absent", n |-> 0, s |-> <<>>]

PyBool(b) == [k |-> "bool", n |-> IF b THEN 1 ELSE 0, s |-> <<>>]

PyInt(i) == [k |-> "int", n |-> i, s |-> <<>>]

PyFloat(tenths) == [k |-> "float", n |-> tenths, s |-> <<>>]

PyStr(syms) == [k |-> "str", n |-> 0, s |-> syms]

\* Python truthiness: None, False, 0, 0.0 and "" are falsy.
Truthy(v) ==
    CASE v.k = "null" -> FALSE
      [] v.k = "str" -> Len(v.s) > 0
      [] OTHER -> v.n # 0

DigitSyms == <<"0", "1", "2", "3", "4", "5", "6", "7", "8", "9">>

RECURSIVE Digits(_)
Digits(i) == IF i < 10 THEN <<DigitSyms[i + 1]>>
             ELSE Digits(i \div 10) \o <<DigitSyms[(i % 10) + 1]>>

\* str(v): the text Python writes for a value.
Str(v) ==
    CASE v.k = "null" -> <<"None">>
      [] v.k = "bool" -> IF v.n = 1 THEN <<"True">> ELSE <<"False">>
      [] v.k = "int" -> Digits(v.n)
      [] v.k = "float" -> Digits(v.n \div 10) \o <<".">> \o Digits(v.n % 10)
      [] OTHER -> v.s

LowerSym(c) ==
    CASE c = "None" -> "none"
      [] c = "True" -> "true"
      [] c = "False" -> "false"
      [] OTHER -> c

\* s.lower()
Lower(s) == [i \in 1..Len(s) |-> LowerSym(s[i])]

RECURSIVE LStrip(_)
LStrip(s) == IF s # <<>> /\ Head(s) = " " THEN LStrip(Tail(s)) ELSE s

RECURSIVE RStrip(_)
RStrip(s) == IF s # <<>> /\ s[Len(s)] = " "
             THEN RStrip(SubSeq(s, 1, Len(s) - 1)) ELSE s

\* s.strip()
Strip(s) == RStrip(LStrip(s))

IsDigit(c) == \E d \in 1..10 : DigitSyms[d] = c

DigitVal(c) == (CHOOSE d \in 1..10 : DigitSyms[d] = c) - 1

RECURSIVE DigitsVal(_)
DigitsVal(s) == IF s = <<>> THEN 0
                ELSE 10 * DigitsVal(SubSeq(s, 1, Len(s) - 1)) + DigitVal(s[Len(s)])

AllDigits(s) == \A i \in 1..Len(s) : IsDigit(s[i])

\* float(s) on decimal text with at most one fractional digit: the value, or
\* ok = FALSE where Python raises ValueError.
Float(s) ==
    LET dots == {i \in 1..Len(s) : s[i] = "."} IN
    IF dots = {} THEN
        IF s # <<>> /\ AllDigits(s)
        THEN [v |-> PyFloat(10 * DigitsVal(s)), ok |-> TRUE]
        ELSE [v |-> PyNone, ok |-> FALSE]
    ELSE
        LET d == CHOOSE i \in dots : TRUE
            ip == SubSeq(s, 1, d - 1)
            fp == SubSeq(s, d + 1, Len(s))
        IN IF Cardinality(dots) = 1 /\ AllDigits(ip) /\ AllDigits(fp)
              /\ Len(ip) + Len(fp) > 0 /\ Len(fp) <= 1
           THEN [v |-> PyFloat(10 * DigitsVal(ip) + DigitsVal(fp)), ok |-> TRUE]
           ELSE [v |-> PyNone, ok |-> FALSE]

\* dict.get(key, default)
GetOr(d, key, default) == IF key \in DOMAIN d THEN d[key] ELSE default

\* dict.get(key)
Get(d, key) == GetOr(d, key, PyNone)

\* os.getenv(name, default): the variable's text, or the default
Getenv(env, name, default) == IF name \in DOMAIN env THEN env[name] ELSE default

\* os.environ[name] = value
Setenv(env, name, value) ==
    [x \in DOMAIN env \cup {name} |-> IF x = name THEN value ELSE env[x]]

(***************************************************************************)
(* HTTP responses.  kind: "json" (jsonify), "file" (send_file), "none"     *)
(* (the view function returned None).  config is <<>> or <<the config>>.   *)
(***************************************************************************)
Response(status, kind, success, config, error, message, audio, name) ==
    [name |-> name, status |-> status, kind |-> kind, success |-> success,
     config |-> config, error |-> error, message |-> message, audio |-> audio]

JsonError(status, error, message) ==
    Response(status, "json", FALSE, <<>>, error, message, <<>>, "")

JsonConfig(config) ==
    Response(200, "json", TRUE, <<config>>, "", "", <<>>, "")

\* send_file(audio_io, mimetype='audio/mpeg', as_attachment=True,
\*           download_name='speech.mp3')
SendFile(audio) ==
    Response(200, "file", FALSE, <<>>, "", "", audio, "speech.mp3")

\* The view function fell off its end: Flask gets None, not a response.
NoResponse == Response(0, "none", FALSE, <<>>, "", "", <<>>, "")

Config(provider, voiceEnabled, pitch, rate, volume, hasElevenLabs) ==
    [provider |-> provider, voiceEnabled |-> voiceEnabled, pitch |-> pitch,
     rate |-> rate, volume |-> volume, hasElevenLabs |-> hasElevenLabs]

(***************************************************************************)
(* GET /api/settings/voice                                                 *)
(***************************************************************************)
SettingVars == <<"VOICE_PROVIDER", "VOICE_ENABLED", "VOICE_PITCH",
                 "VOICE_RATE", "VOICE_VOLUME">>

SettingDefaults == <<(<<"elevenlabs">>), (<<"true">>), (<<"1", ".", "0">>),
                     (<<"1", ".", "0">>), (<<"1", ".", "0">>)>>

\* The i-th os.getenv of the config literal, in evaluation order.
ReadSetting(env, i) == Getenv(env, SettingVars[i], SettingDefaults[i])

\* The response built from the five texts read; a float() that raises is
\* caught by the handler's except and answered 500.
ConfigResponse(reads, key) ==
    LET pitch == Float(reads[3])
        rate == Float(reads[4])
        volume == Float(reads[5])
    IN IF pitch.ok /\ rate.ok /\ volume.ok
       THEN JsonConfig(Config(PyStr(reads[1]),
                              PyBool(Lower(reads[2]) = <<"true">>),
                              pitch.v, rate.v, volume.v,
                              PyBool(Truthy(key))))
       ELSE JsonError(500, "Failed to fetch voice settings", "")

get_voice_settings(env, key) ==
    ConfigResponse([i \in 1..5 |-> ReadSetting(env, i)], key)

(***************************************************************************)
(* POST /api/settings/voice                                                *)
(* A handler state st is [env, sdk, exc]: the environment, the SDK key and *)
(* the message of the exception raised so far ("" for none).               *)
(***************************************************************************)
Raise(st, msg) == [st EXCEPT !.exc = msg]

ProviderStage(st, provider) ==
    IF provider \notin {PyStr(<<"elevenlabs">>), PyStr(<<"webspeech">>)}
    THEN Raise(st, "Invalid voice provider")
    ELSE st

\* os.environ['ELEVEN_LABS_API_KEY'] = api_key; set_api_key(api_key)
StoreKey(st, api_key) ==
    [st EXCEPT !.env = Setenv(st.env, "ELEVEN_LABS_API_KEY", api_key.s),
               !.sdk = api_key]

KeyStageStoresFirst(st, provider, api_key) ==
    IF st.exc # "" THEN st
    ELSE IF provider = PyStr(<<"elevenlabs">>) /\ Truthy(api_key)
         THEN IF ~Truthy(PyStr(Strip(api_key.s)))
              THEN Raise(StoreKey(st, api_key), "Invalid Eleven Labs API key")
              ELSE StoreKey(st, api_key)
         ELSE st

KeyStage(st, provider, api_key) ==
    IF st.exc # "" THEN st
    ELSE IF provider = PyStr(<<"elevenlabs">>) /\ Truthy(api_key)
         THEN IF ~Truthy(PyStr(Strip(api_key.s)))
              THEN Raise(st, "Invalid Eleven Labs API key")
              ELSE StoreKey(st, api_key)
         ELSE st

\* The text each of the five assignments writes, in program order.
SettingText(body, i) ==
    CASE i = 1 -> Get(body, "provider").s
      [] i = 2 -> Lower(Str(Get(body, "voiceEnabled")))
      [] i = 3 -> Str(Get(body, "pitch"))
      [] i = 4 -> Str(Get(body, "rate"))
      [] i = 5 -> Str(Get(body, "volume"))

RECURSIVE WriteAll(_, _, _)
WriteAll(env, body, n) ==
    IF n = 0 THEN env
    ELSE Setenv(WriteAll(env, body, n - 1), SettingVars[n], SettingText(body, n))

\* A store that replaces all five settings in one step.
WriteSettingAtomically(env, body, i) == WriteAll(env, body, 5)

\* The i-th assignment os.environ[...] = ...
WriteSetting(env, body, i) == Setenv(env, SettingVars[i], SettingText(body, i))

RECURSIVE WriteSettings(_, _, _)
WriteSettings(env, body, n) ==
    IF n = 0 THEN env
    ELSE WriteSetting(WriteSettings(env, body, n - 1), body, n)

UpdateResponse(body, key) ==
    JsonConfig(Config(Get(body, "provider"), Get(body, "voiceEnabled"),
                      Get(body, "pitch"), Get(body, "rate"),
                      Get(body, "volume"), PyBool(Truthy(key))))

UpdateError(msg) == JsonError(400, "Failed to update voice settings", msg)

\* Validation and key storage, up to the first os.environ['VOICE_...'] write.
UpdatePrologue(env, sdk, body) ==
    KeyStage(ProviderStage([env |-> env, exc |-> "", sdk |-> sdk],
                           Get(body, "provider")),
             Get(body, "provider"), Get(body, "apiKey"))

\* The whole handler: [env, sdk, resp]
update_voice_settings(env, sdk, key, body) ==
    LET st == UpdatePrologue(env, sdk, body) IN
    IF st.exc # ""
    THEN [env |-> st.env, sdk |-> st.sdk, resp |-> UpdateError(st.exc)]
    ELSE [env |-> WriteSettings(st.env, body, 5), sdk |-> st.sdk,
          resp |-> UpdateResponse(body, key)]

(***************************************************************************)
(* POST /api/synthesize                                                    *)
(* Backend outcomes: "raise" (the call raises), "empty" (zero-byte audio), *)
(* "audio" (MP3 bytes).  calls is the log of backend invocations.          *)
(***************************************************************************)
OpenAIOutcomes == {"raise", "empty", "audio"}

ElevenOutcomes == {"raise", "empty", "audio"}

\* response.content of openai_client.audio.speech.create(...)
OpenAIContent(oa) == IF oa = "audio" THEN <<"ID3", "nova">> ELSE <<>>

\* the bytes returned by elevenlabs.generate(...)
ElevenAudio(el) == IF el = "audio" THEN <<"ID3", "Rachel">> ELSE <<>>

SynthError(msg) == JsonError(500, "Voice synthesis failed", msg)

\* if not text:
TextMissingOnlyNone(text) == text.k = "null"

TextMissing(text) == ~Truthy(text)

\* The inner try of the openai branch: the message of the exception it
\* raises, or "" when audio_io is ready to be sent.
OpenAIAttempt(oa) ==
    CASE oa = "raise" -> "openai backend error"
      [] Len(OpenAIContent(oa)) = 0 -> "Empty response from OpenAI"
      [] OTHER -> ""

\* except Exception as openai_error: if eleven_labs_key:
FallbackNever(key) == FALSE

FallbackAllowed(key) == Truthy(key)

\* The elevenlabs branch: [resp, calls]
ElevenLabsRetriesPrimary(key, el, oa, calls) ==
    IF ~Truthy(key)
    THEN [resp |-> JsonError(500, "Eleven Labs API key not configured", ""),
          calls |-> calls]
    ELSE IF el = "raise"
         THEN IF OpenAIAttempt(oa) = ""
              THEN [resp |-> SendFile(OpenAIContent(oa)),
                    calls |-> calls \o <<"elevenlabs", "openai">>]
              ELSE [resp |-> SynthError(OpenAIAttempt(oa)),
                    calls |-> calls \o <<"elevenlabs", "openai">>]
         ELSE [resp |-> SendFile(ElevenAudio(el)),
               calls |-> calls \o <<"elevenlabs">>]

ElevenLabsBranch(key, el, oa, calls) ==
    IF ~Truthy(key)
    THEN [resp |-> JsonError(500, "Eleven Labs API key not configured", ""),
          calls |-> calls]
    ELSE IF el = "raise"
         THEN [resp |-> SynthError("elevenlabs backend error"),
               calls |-> calls \o <<"elevenlabs">>]
         ELSE [resp |-> SendFile(ElevenAudio(el)),
               calls |-> calls \o <<"elevenlabs">>]

\* The code after the openai branch, entered with the (possibly reassigned)
\* provider.
AfterOpenAI(provider, key, el, oa, calls) ==
    IF provider = PyStr(<<"elevenlabs">>)
    THEN ElevenLabsBranch(key, el, oa, calls)
    ELSE [resp |-> NoResponse, calls |-> calls]

\* The whole handler: [resp, calls]
synthesize_speech(key, body, oa, el) ==
    LET text == Get(body, "text")
        provider == GetOr(body, "provider", PyStr(<<"openai">>))
    IN IF TextMissing(text)
       THEN [resp |-> JsonError(400, "Text is required", ""), calls |-> <<>>]
       ELSE IF provider = PyStr(<<"openai">>)
            THEN IF OpenAIAttempt(oa) = ""
                 THEN [resp |-> SendFile(OpenAIContent(oa)),
                       calls |-> <<"openai">>]
                 ELSE IF FallbackAllowed(key)
                      THEN AfterOpenAI(PyStr(<<"elevenlabs">>), key, el, oa,
                                       <<"openai">>)
                      ELSE [resp |-> SynthError(OpenAIAttempt(oa)),
                            calls |-> <<"openai">>]
            ELSE AfterOpenAI(provider, key, el, oa, <<>>)

(***************************************************************************)
(* Request bodies                                                          *)
(***************************************************************************)
\* A JSON object from the values given for its keys; PyAbsent omits the key.
MakeBody(fields) ==
    [x \in {y \in DOMAIN fields : fields[y] # PyAbsent} |-> fields[x]]

PostProviders == {PyStr(<<"elevenlabs">>), PyStr(<<"webspeech">>),
                  PyStr(<<"invalid">>)}

PostEnabled == {PyAbsent, PyBool(TRUE), PyBool(FALSE)}

\* <<pitch, rate, volume>>
PostNumbers == {<<PyAbsent, PyAbsent, PyAbsent>>,
                <<PyInt(1), PyFloat(10), PyFloat(5)>>,
                <<PyFloat(15), PyAbsent, PyFloat(5)>>,
                <<PyFloat(15), PyInt(2), PyAbsent>>}

PostKeys == {PyAbsent, PyStr(<<>>), PyStr(<<" ", " ">>), PyStr(<<"sk-new">>)}

SynthTexts == {PyAbsent, PyStr(<<>>), PyStr(<<"h", "i">>)}

SynthProviders == {PyAbsent, PyStr(<<"openai">>), PyStr(<<"elevenlabs">>),
                   PyStr(<<"webspeech">>)}

\* ELEVEN_LABS_API_KEY in the environment the process starts with
StartEnvs == {<<>>, [x \in {"ELEVEN_LABS_API_KEY"} |-> <<"sk-env">>]}

\* os.getenv(name): None when the variable is unset
GetenvOrNone(env, name) ==
    IF name \in DOMAIN env THEN PyStr(env[name]) ELSE PyNone

(***************************************************************************)
(* Spec: the speech gateway serving one request at a time                  *)
(***************************************************************************)
Served(op, body, oa, el, resp, calls) ==
    [body |-> body, resp |-> resp, oa |-> oa, el |-> el, calls |-> calls,
     op |-> op]

NoThreads == <<>>

\* The dialogue gateway is a separate process: no webhook thread exists here.
WebhookIdle ==
    /\ loop = [thread_id |-> 0, stopping |-> FALSE, ready |-> <<>>]
    /\ fut = NoThreads /\ dpc = NoThreads /\ dreq = NoThreads
    /\ dntodo = NoThreads /\ dexc = NoThreads /\ dresp = NoThreads

Init ==
    /\ environ \in StartEnvs
    /\ eleven_labs_key = GetenvOrNone(environ, "ELEVEN_LABS_API_KEY")
    /\ sdk_key = eleven_labs_key
    /\ last = Served("none", <<>>, "", "", NoResponse, <<>>)
    /\ hpc = NoThreads /\ hreq = NoThreads /\ hread = NoThreads
    /\ hresp = NoThreads
    /\ WebhookIdle

GetVoiceSettings ==
    /\ last' = Served("get", <<>>, "", "",
                      get_voice_settings(environ, eleven_labs_key), <<>>)
    /\ UNCHANGED <<webhookVars, environ, eleven_labs_key, sdk_key, raceVars>>

UpdateVoiceSettings ==
    \E provider \in PostProviders, voiceEnabled \in PostEnabled,
       numbers \in PostNumbers, apiKey \in PostKeys :
        \E body \in {MakeBody([provider |-> provider,
                               voiceEnabled |-> voiceEnabled,
                               pitch |-> numbers[1], rate |-> numbers[2],
                               volume |-> numbers[3], apiKey |-> apiKey])} :
            \E r \in {update_voice_settings(environ, sdk_key, eleven_labs_key, body)} :
                /\ environ' = r.env
                /\ sdk_key' = r.sdk
                /\ last' = Served("post", body, "", "", r.resp, <<>>)
                /\ UNCHANGED <<webhookVars, eleven_labs_key, raceVars>>

SynthesizeSpeech ==
    \E text \in SynthTexts, provider \in SynthProviders,
       oa \in OpenAIOutcomes, el \in ElevenOutcomes :
        \E body \in {MakeBody([provider |-> provider, text |-> text])} :
            \E r \in {synthesize_speech(eleven_labs_key, body, oa, el)} :
                /\ last' = Served("synth", body, oa, el, r.resp, r.calls)
                /\ UNCHANGED <<webhookVars, environ, eleven_labs_key, sdk_key,
                               raceVars>>

Next == GetVoiceSettings \/ UpdateVoiceSettings \/ SynthesizeSpeech

Spec == Init /\ [][Next]_vars

(***************************************************************************)
(* SpecRace: the settings handlers run on concurrent request threads.      *)
(* Each step is one statement of a handler that touches os.environ; the    *)
(* handlers take no lock, so the steps of different threads interleave.    *)
(* Every thread serves one request.                                        *)
(***************************************************************************)
NumWriters == 2

\* The threads serving a POST, and the one serving a GET.
Writers == 1..NumWriters

Reader == NumWriters + 1

Handlers == Writers \cup {Reader}

\* Two complete, valid POST bodies that differ in every setting.
RaceBodies ==
    {MakeBody([provider |-> PyStr(<<"webspeech">>), voiceEnabled |-> PyBool(TRUE),
               pitch |-> PyFloat(15), rate |-> PyInt(2), volume |-> PyFloat(5)]),
     MakeBody([provider |-> PyStr(<<"elevenlabs">>), voiceEnabled |-> PyBool(FALSE),
               pitch |-> PyInt(1), rate |-> PyFloat(10), volume |-> PyFloat(8)])}

InitRace ==
    /\ environ = <<>>
    /\ eleven_labs_key = GetenvOrNone(environ, "ELEVEN_LABS_API_KEY")
    /\ sdk_key = eleven_labs_key
    /\ last = Served("none", <<>>, "", "", NoResponse, <<>>)
    /\ hpc = [t \in Handlers |-> "idle"]
    /\ hreq = [t \in Handlers |-> <<>>]
    /\ hread = [t \in Handlers |-> <<>>]
    /\ hresp = [t \in Handlers |-> NoResponse]
    /\ WebhookIdle

\* A thread picks up a POST: lines 67-84, which end before the first write.
BeginPost(t) ==
    /\ hpc[t] = "idle"
    /\ \E body \in RaceBodies :
        LET st == UpdatePrologue(environ, sdk_key, body) IN
        /\ hreq' = [hreq EXCEPT ![t] = body]
        /\ environ' = st.env
        /\ sdk_key' = st.sdk
        /\ IF st.exc # ""
           THEN /\ hpc' = [hpc EXCEPT ![t] = "done"]
                /\ hresp' = [hresp EXCEPT ![t] = UpdateError(st.exc)]
           ELSE /\ hpc' = [hpc EXCEPT ![t] = "write"]
                /\ UNCHANGED hresp
    /\ UNCHANGED <<webhookVars, eleven_labs_key, last, hread>>

\* The next of the five assignments; hread[t] holds the texts written.
\* After the fifth the handler only builds its response from its locals
\* (lines 92-102).
WriteNext(t) ==
    /\ hpc[t] = "write"
    /\ Len(hread[t]) < 5
    /\ environ' = WriteSetting(environ, hreq[t], Len(hread[t]) + 1)
    /\ hread' = [hread EXCEPT ![t] = Append(@, SettingText(hreq[t], Len(@) + 1))]
    /\ IF Len(hread[t]) = 4
       THEN /\ hresp' = [hresp EXCEPT ![t] = UpdateResponse(hreq[t], eleven_labs_key)]
            /\ hpc' = [hpc EXCEPT ![t] = "done"]
       ELSE UNCHANGED <<hpc, hresp>>
    /\ UNCHANGED <<webhookVars, eleven_labs_key, sdk_key, last, hreq>>

BeginGet(t) ==
    /\ hpc[t] = "idle"
    /\ hpc' = [hpc EXCEPT ![t] = "read"]
    /\ UNCHANGED <<webhookVars, environ, eleven_labs_key, sdk_key, last, hreq, hread, hresp>>

\* The next os.getenv of the config literal; hread[t] holds the texts read.
\* After the fifth the handler only builds its response from them
\* (lines 49-62).
ReadNext(t) ==
    /\ hpc[t] = "read"
    /\ Len(hread[t]) < 5
    /\ hread' = [hread EXCEPT ![t] = Append(@, ReadSetting(environ, Len(@) + 1))]
    /\ IF Len(hread[t]) = 4
       THEN /\ hresp' = [hresp EXCEPT ![t] = ConfigResponse(hread'[t], eleven_labs_key)]
            /\ hpc' = [hpc EXCEPT ![t] = "done"]
       ELSE UNCHANGED <<hpc, hresp>>
    /\ UNCHANGED <<webhookVars, environ, eleven_labs_key, sdk_key, last, hreq>>

NextRace ==
    \/ \E t \in Writers : BeginPost(t) \/ WriteNext(t)
    \/ BeginGet(Reader) \/ ReadNext(Reader)

SpecRace == InitRace /\ [][NextRace]_vars


(***************************************************************************)
(* Properties of the speech gateway (checked under Spec)                   *)
(***************************************************************************)
LastText == Get(last.body, "text")

TextGiven == last.op = "synth" /\ Truthy(LastText)

PrimaryPreferred ==
    "provider" \notin DOMAIN last.body \/ last.body.provider = PyStr(<<"openai">>)

SecondaryPreferred ==
    "provider" \in DOMAIN last.body /\ last.body.provider = PyStr(<<"elevenlabs">>)

IsErrorPayload(resp, status) ==
    resp.status = status /\ resp.kind = "json" /\ resp.error # ""

IsSpeechFile(resp) ==
    resp.status = 200 /\ resp.kind = "file" /\ resp.name = "speech.mp3"

\* C1: a request with non-empty text preferring the primary provider (openai,
\* or no provider field) whose primary call raises: with a secondary key
\* configured in the process, the primary is called once, then the secondary
\* once, and nothing else; a secondary that returns gives a 200 carrying its
\* audio, a secondary that raises gives a 500 error payload; with no secondary
\* key the primary is called once and the answer is a 500 error payload.
C1_FallbackOnce ==
    (TextGiven /\ PrimaryPreferred /\ last.oa = "raise") =>
        IF Truthy(eleven_labs_key)
        THEN /\ last.calls = <<"openai", "elevenlabs">>
             /\ last.el # "raise" =>
                    IsSpeechFile(last.resp) /\ last.resp.audio = ElevenAudio(last.el)
             /\ last.el = "raise" => IsErrorPayload(last.resp, 500)
        ELSE /\ last.calls = <<"openai">>
             /\ IsErrorPayload(last.resp, 500)

C1_Witness ==
    /\ TextGiven /\ PrimaryPreferred /\ last.oa = "raise" /\ last.el = "audio"
    /\ Truthy(eleven_labs_key)
    /\ last.calls = <<"openai", "elevenlabs">>
    /\ IsSpeechFile(last.resp) /\ last.resp.audio = <<"ID3", "Rachel">>

\* C2: a synthesis request whose text is empty or absent is answered 400 with
\* an error payload and no backend is invoked, whatever the provider field and
\* the credentials.
C2_EmptyTextRejected ==
    (last.op = "synth" /\ ("text" \notin DOMAIN last.body \/ LastText = PyStr(<<>>))) =>
        IsErrorPayload(last.resp, 400) /\ last.calls = <<>>

C2_Witness ==
    /\ last.op = "synth" /\ LastText = PyStr(<<>>) /\ "text" \in DOMAIN last.body
    /\ SecondaryPreferred /\ Truthy(eleven_labs_key)
    /\ last.resp.status = 400 /\ last.calls = <<>>

\* A key that is supplied, non-empty and only whitespace.
BlankKey(body) ==
    /\ "apiKey" \in DOMAIN body
    /\ Len(body.apiKey.s) > 0
    /\ Strip(body.apiKey.s) = <<>>

PostRejectable(body) ==
    \/ Get(body, "provider") \notin {PyStr(<<"elevenlabs">>), PyStr(<<"webspeech">>)}
    \/ Get(body, "provider") = PyStr(<<"elevenlabs">>) /\ BlankKey(body)

Tenths(v) == IF v.k = "int" THEN 10 * v.n ELSE v.n

IsNumber(v) == v.k \in {"int", "float"}

SameNumber(a, b) == IsNumber(a) /\ IsNumber(b) /\ Tenths(a) = Tenths(b)

\* The config a GET returned shows every value the POST body gave.
ReflectsPosted(config, body) ==
    /\ config.provider = body.provider
    /\ "voiceEnabled" \in DOMAIN body => config.voiceEnabled = body.voiceEnabled
    /\ "pitch" \in DOMAIN body => SameNumber(config.pitch, body.pitch)
    /\ "rate" \in DOMAIN body => SameNumber(config.rate, body.rate)
    /\ "volume" \in DOMAIN body => SameNumber(config.volume, body.volume)

\* C4: the GET that immediately follows a POST answered 200 is answered 200
\* with a config showing the values just posted, also when the POST omitted
\* some fields, and a GET that follows a GET returns the same response.
C4_ReadAfterWrite ==
    [][/\ (last.op = "post" /\ last.resp.status = 200 /\ last'.op = "get") =>
            /\ last'.resp.status = 200
            /\ ReflectsPosted(last'.resp.config[1], last.body)
       /\ (last.op = "get" /\ last'.op = "get") => last'.resp = last.resp]_vars

\* The process started without a secondary key and a POST has stored one.
KeyPostedLater ==
    /\ eleven_labs_key = PyNone
    /\ "ELEVEN_LABS_API_KEY" \in DOMAIN environ
    /\ Truthy(PyStr(Strip(environ["ELEVEN_LABS_API_KEY"])))

\* C5: once a POST has stored a secondary key in a process started without
\* one, later requests see the secondary provider as configured: synthesis
\* preferring it is not answered 'key not configured', a failed primary
\* attempt falls back to it, and GET reports the key as present.
C5_PostedKeyVisible ==
    KeyPostedLater =>
        /\ (TextGiven /\ SecondaryPreferred) =>
                last.resp.error # "Eleven Labs API key not configured"
        /\ (TextGiven /\ PrimaryPreferred /\ last.oa = "raise") =>
                last.calls = <<"openai", "elevenlabs">>
        /\ (last.op = "get" /\ last.resp.status = 200) =>
                last.resp.config[1].hasElevenLabs = PyBool(TRUE)

\* C6 as claimed: the fallback applies to whichever provider is preferred; a
\* request preferring the secondary whose call raises is retried once on the
\* primary (whose key the process always holds).
C6_FallbackEitherWay ==
    TextGiven =>
        /\ (PrimaryPreferred /\ last.oa = "raise" /\ Truthy(eleven_labs_key)) =>
                last.calls = <<"openai", "elevenlabs">>
        /\ (SecondaryPreferred /\ last.el = "raise" /\ Truthy(eleven_labs_key)) =>
                last.calls = <<"elevenlabs", "openai">>

\* C6 amended: the fallback applies only when the primary is preferred: its
\* failed attempt is followed by exactly one secondary call when a secondary
\* key is configured.  A request preferring the secondary whose call raises
\* is answered 500 after that single secondary call; the primary is not tried.
C6_FallbackPrimaryOnly ==
    TextGiven =>
        /\ (PrimaryPreferred /\ last.oa = "raise" /\ Truthy(eleven_labs_key)) =>
                last.calls = <<"openai", "elevenlabs">>
        /\ (SecondaryPreferred /\ last.el = "raise" /\ Truthy(eleven_labs_key)) =>
                last.calls = <<"elevenlabs">> /\ IsErrorPayload(last.resp, 500)

C6_Witness ==
    /\ TextGiven /\ SecondaryPreferred /\ last.el = "raise" /\ last.oa = "audio"
    /\ Truthy(eleven_labs_key)
    /\ last.calls = <<"elevenlabs">> /\ last.resp.status = 500

\* C7: every 200 answer of /api/synthesize carries non-empty audio.
C7_AudioNonEmpty ==
    (last.op = "synth" /\ last.resp.status = 200) => Len(last.resp.audio) > 0

\* C8: every synthesis request is answered by the handler with a 200
\* speech.mp3 attachment, a 400 error payload or a 500 error payload.
C8_AlwaysAnswered ==
    last.op = "synth" =>
        \/ IsSpeechFile(last.resp)
        \/ IsErrorPayload(last.resp, 400)
        \/ IsErrorPayload(last.resp, 500)

(***************************************************************************)
(* Properties of the concurrent settings handlers (checked under SpecRace) *)
(***************************************************************************)
\* The five texts a body's POST stores.
StoredBy(body) == [i \in 1..5 |-> SettingText(body, i)]

\* The five texts a GET started now would read, were it not interrupted.
StoredNow == [i \in 1..5 |-> ReadSetting(environ, i)]

\* Writer t has executed its i-th assignment.
HasWritten(t, i) == Len(hread[t]) >= i

\* C10: the settings store is written one variable at a time with no lock:
\* every stored setting is the text some POST thread has already assigned to
\* that very variable (never a whole body at once), and every text a GET has
\* read is the default or such a single assignment; so with two concurrent
\* valid POSTs the stored settings, and the config a concurrent GET returns,
\* can take some fields from one writer and some from the other (the witness).
C10_FieldwiseWrites ==
    /\ \A i \in 1..5 :
        SettingVars[i] \in DOMAIN environ =>
            \E t \in Writers : HasWritten(t, i) /\ environ[SettingVars[i]] = StoredBy(hreq[t])[i]
    /\ \A i \in 1..Len(hread[Reader]) :
        \/ hread[Reader][i] = SettingDefaults[i]
        \/ \E t \in Writers : HasWritten(t, i) /\ hread[Reader][i] = StoredBy(hreq[t])[i]
    /\ \A t \in Writers :
        hpc[t] = "done" => hresp[t] = UpdateResponse(hreq[t], eleven_labs_key)

C10_Witness ==
    \E a, b \in Writers :
        /\ a # b /\ hreq[a] # hreq[b]
        /\ hpc[a] = "done" /\ hresp[a].status = 200
        /\ hpc[b] = "done" /\ hresp[b].status = 200
        /\ StoredNow \notin {StoredBy(hreq[a]), StoredBy(hreq[b])}
        /\ \A i \in 1..5 : StoredNow[i] \in {StoredBy(hreq[a])[i], StoredBy(hreq[b])[i]}
        /\ hpc[Reader] = "done" /\ hresp[Reader].status = 200
        /\ hread[Reader] = StoredNow

(***************************************************************************)
(* SpecWebhook: rasa_server.py.  Flask's development server serves each    *)
(* request on a thread of its own, and every handler drives the one module *)
(* level event loop with loop.run_until_complete.  The steps below are the *)
(* statements of run_until_complete, run_forever and _run_once that read   *)
(* or write the loop's shared fields (_thread_id, _stopping, _ready); the  *)
(* loop takes no lock, so the steps of different threads interleave.       *)
(* Every thread serves one request; thread ids start at 1, 0 is None.      *)
(***************************************************************************)
NumRequests == 2

WebhookThreads == 1..NumRequests

WebhookMessages == {PyAbsent, PyStr(<<"hello">>), PyStr(<<"order">>)}

WebhookSenders == {PyAbsent, PyStr(<<"u1">>)}

\* What agent.handle_text does with a message: it raises, or returns a list
\* of response objects addressed to the sender.
AgentOutcomes == {"raise", "one", "two"}

Reply(sender, message, i) ==
    [text |-> <<"re">> \o message.s \o <<DigitSyms[i + 1]>>, recipient_id |-> sender]

AgentResponses(message, sender, outcome) ==
    CASE outcome = "one" -> <<Reply(sender, message, 1)>>
      [] outcome = "two" -> <<Reply(sender, message, 1), Reply(sender, message, 2)>>
      [] OTHER -> <<>>

\* The coroutine's arguments, with the defaults of request.json.get
TextMessage(body) == GetOr(body, "message", PyStr(<<>>))

SenderId(body) == GetOr(body, "sender", PyStr(<<"default">>))

WebhookResponse(status, json, error) ==
    [status |-> status, error |-> error, json |-> json]

NoWebhookResponse == WebhookResponse(0, <<>>, "")

NoFuture == [exc |-> "", state |-> "none", result |-> <<>>, cb |-> FALSE]

Handle(kind, task) == [kind |-> kind, task |-> task]

InitWebhook ==
    /\ environ = <<>>
    /\ eleven_labs_key = PyNone
    /\ sdk_key = PyNone
    /\ last = Served("none", <<>>, "", "", NoResponse, <<>>)
    /\ hpc = NoThreads /\ hreq = NoThreads /\ hread = NoThreads
    /\ hresp = NoThreads
    /\ loop = [thread_id |-> 0, stopping |-> FALSE, ready |-> <<>>]
    /\ fut = [t \in WebhookThreads |-> NoFuture]
    /\ dpc = [t \in WebhookThreads |-> "idle"]
    /\ dreq = [t \in WebhookThreads |-> <<>>]
    /\ dntodo = [t \in WebhookThreads |-> 0]
    /\ dexc = [t \in WebhookThreads |-> ""]
    /\ dresp = [t \in WebhookThreads |-> NoWebhookResponse]

Goto(t, pc) == dpc' = [dpc EXCEPT ![t] = pc]

\* lines 19-21 and the call agent.handle_text(...), which only makes the
\* coroutine object
Receive(t) ==
    /\ dpc[t] = "idle"
    /\ \E message \in WebhookMessages, sender \in WebhookSenders :
        dreq' = [dreq EXCEPT ![t] = MakeBody([message |-> message, sender |-> sender])]
    /\ Goto(t, "check_running")
    /\ UNCHANGED <<speechVars, raceVars, loop, fut, dntodo, dexc, dresp>>

\* run_until_complete: self._check_running() finds the loop running
CheckRunningFails(t) ==
    /\ dpc[t] = "check_running"
    /\ loop.thread_id # 0
    /\ dexc' = [dexc EXCEPT ![t] = "This event loop is already running"]
    /\ Goto(t, "respond")
    /\ UNCHANGED <<speechVars, raceVars, loop, fut, dreq, dntodo, dresp>>

CheckRunningPasses(t) ==
    /\ dpc[t] = "check_running"
    /\ loop.thread_id = 0
    /\ Goto(t, "ensure_future")
    /\ UNCHANGED <<speechVars, raceVars, loop, fut, dreq, dntodo, dexc, dresp>>

\* future = tasks.ensure_future(future, loop=self): the new Task schedules
\* its first step with call_soon
EnsureFuture(t) ==
    /\ dpc[t] = "ensure_future"
    /\ fut' = [fut EXCEPT ![t].state = "pending"]
    /\ loop' = [loop EXCEPT !.ready = Append(@, Handle("step", t))]
    /\ Goto(t, "add_done_callback")
    /\ UNCHANGED <<speechVars, raceVars, dreq, dntodo, dexc, dresp>>

\* future.add_done_callback(_run_until_complete_cb): on a future that is
\* already done the callback is scheduled at once
AddDoneCallback(t) ==
    /\ dpc[t] = "add_done_callback"
    /\ IF fut[t].state = "done"
       THEN /\ loop' = [loop EXCEPT !.ready = Append(@, Handle("stop", t))]
            /\ UNCHANGED fut
       ELSE /\ fut' = [fut EXCEPT ![t].cb = TRUE]
            /\ UNCHANGED loop
    /\ Goto(t, "run_forever")
    /\ UNCHANGED <<speechVars, raceVars, dreq, dntodo, dexc, dresp>>

\* run_forever: self._check_running() finds the loop running
RunForeverFails(t) ==
    /\ dpc[t] = "run_forever"
    /\ loop.thread_id # 0
    /\ dexc' = [dexc EXCEPT ![t] = "This event loop is already running"]
    /\ Goto(t, "remove_done_callback")
    /\ UNCHANGED <<speechVars, raceVars, loop, fut, dreq, dntodo, dresp>>

RunForeverPasses(t) ==
    /\ dpc[t] = "run_forever"
    /\ loop.thread_id = 0
    /\ Goto(t, "set_thread_id")
    /\ UNCHANGED <<speechVars, raceVars, loop, fut, dreq, dntodo, dexc, dresp>>

\* self._thread_id = threading.get_ident()
SetThreadId(t) ==
    /\ dpc[t] = "set_thread_id"
    /\ loop' = [loop EXCEPT !.thread_id = t]
    /\ Goto(t, "select")
    /\ UNCHANGED <<speechVars, raceVars, fut, dreq, dntodo, dexc, dresp>>

\* _run_once: timeout = 0 when something is ready or the loop is stopping,
\* and select(0) returns at once
SelectPolls(t) ==
    /\ dpc[t] = "select"
    /\ loop.ready # <<>> \/ loop.stopping
    /\ Goto(t, "ntodo")
    /\ UNCHANGED <<speechVars, raceVars, loop, fut, dreq, dntodo, dexc, dresp>>

\* _run_once: otherwise timeout = None and select(None) waits for a file
\* descriptor; no call_soon, stop() or later request writes to one
SelectBlocks(t) ==
    /\ dpc[t] = "select"
    /\ loop.ready = <<>> /\ ~loop.stopping
    /\ Goto(t, "blocked")
    /\ UNCHANGED <<speechVars, raceVars, loop, fut, dreq, dntodo, dexc, dresp>>

\* ntodo = len(self._ready)
ReadNtodo(t) ==
    /\ dpc[t] = "ntodo"
    /\ dntodo' = [dntodo EXCEPT ![t] = Len(loop.ready)]
    /\ Goto(t, "callbacks")
    /\ UNCHANGED <<speechVars, raceVars, loop, fut, dreq, dexc, dresp>>

\* handle = self._ready.popleft(); handle._run() for a Task's step: the
\* coroutine of request k runs to its end, the future is set, and its done
\* callbacks are scheduled with call_soon
RunTaskStep(t) ==
    /\ dpc[t] = "callbacks"
    /\ dntodo[t] > 0
    /\ loop.ready # <<>>
    /\ Head(loop.ready).kind = "step"
    /\ LET k == Head(loop.ready).task IN
       \E outcome \in AgentOutcomes :
        /\ fut' = [fut EXCEPT ![k].state = "done",
                              ![k].exc = IF outcome = "raise" THEN "agent error" ELSE "",
                              ![k].result = AgentResponses(TextMessage(dreq[k]),
                                                           SenderId(dreq[k]), outcome),
                              ![k].cb = FALSE]
        /\ loop' = [loop EXCEPT !.ready = IF fut[k].cb
                                          THEN Append(Tail(@), Handle("stop", k))
                                          ELSE Tail(@)]
    /\ dntodo' = [dntodo EXCEPT ![t] = @ - 1]
    /\ UNCHANGED <<speechVars, raceVars, dpc, dreq, dexc, dresp>>

\* handle._run() for _run_until_complete_cb: futures._get_loop(fut).stop()
RunStopCallback(t) ==
    /\ dpc[t] = "callbacks"
    /\ dntodo[t] > 0
    /\ loop.ready # <<>>
    /\ Head(loop.ready).kind = "stop"
    /\ loop' = [loop EXCEPT !.ready = Tail(@), !.stopping = TRUE]
    /\ dntodo' = [dntodo EXCEPT ![t] = @ - 1]
    /\ UNCHANGED <<speechVars, raceVars, fut, dpc, dreq, dexc, dresp>>

\* self._ready.popleft() on a deque another thread has emptied
PopFromEmpty(t) ==
    /\ dpc[t] = "callbacks"
    /\ dntodo[t] > 0
    /\ loop.ready = <<>>
    /\ dexc' = [dexc EXCEPT ![t] = "pop from an empty deque"]
    /\ Goto(t, "finally")
    /\ UNCHANGED <<speechVars, raceVars, loop, fut, dreq, dntodo, dresp>>

\* run_forever: if self._stopping: break
CheckStopping(t) ==
    /\ dpc[t] = "callbacks"
    /\ dntodo[t] = 0
    /\ Goto(t, IF loop.stopping THEN "finally" ELSE "select")
    /\ UNCHANGED <<speechVars, raceVars, loop, fut, dreq, dntodo, dexc, dresp>>

\* run_forever's finally: self._stopping = False; self._thread_id = None
RunForeverFinally(t) ==
    /\ dpc[t] = "finally"
    /\ loop' = [loop EXCEPT !.stopping = FALSE, !.thread_id = 0]
    /\ Goto(t, "remove_done_callback")
    /\ UNCHANGED <<speechVars, raceVars, fut, dreq, dntodo, dexc, dresp>>

\* run_until_complete's finally and tail: remove the callback, re-raise what
\* run_forever raised, raise if the future is not done, else future.result()
RemoveDoneCallback(t) ==
    /\ dpc[t] = "remove_done_callback"
    /\ fut' = [fut EXCEPT ![t].cb = FALSE]
    /\ dexc' = [dexc EXCEPT ![t] =
                    IF @ # "" THEN @
                    ELSE IF fut[t].state # "done"
                         THEN "Event loop stopped before Future completed."
                         ELSE fut[t].exc]
    /\ Goto(t, "respond")
    /\ UNCHANGED <<speechVars, raceVars, loop, dreq, dntodo, dresp>>

\* return jsonify(response), or the except clause's
\* jsonify({"error": str(e)}), 500
webhook_return(exc, response) ==
    IF exc # "" THEN WebhookResponse(500, <<>>, exc)
    ELSE WebhookResponse(200, response, "")

Respond(t) ==
    /\ dpc[t] = "respond"
    /\ dresp' = [dresp EXCEPT ![t] = webhook_return(dexc[t], fut[t].result)]
    /\ Goto(t, "done")
    /\ UNCHANGED <<speechVars, raceVars, loop, fut, dreq, dntodo, dexc>>

NextWebhook ==
    \E t \in WebhookThreads :
        \/ Receive(t)
        \/ CheckRunningFails(t) \/ CheckRunningPasses(t)
        \/ EnsureFuture(t) \/ AddDoneCallback(t)
        \/ RunForeverFails(t) \/ RunForeverPasses(t)
        \/ SetThreadId(t)
        \/ SelectPolls(t) \/ SelectBlocks(t)
        \/ ReadNtodo(t)
        \/ RunTaskStep(t) \/ RunStopCallback(t) \/ PopFromEmpty(t)
        \/ CheckStopping(t)
        \/ RunForeverFinally(t)
        \/ RemoveDoneCallback(t)
        \/ Respond(t)

SpecWebhook == InitWebhook /\ [][NextWebhook]_vars

(***************************************************************************)
(* Properties of the dialogue gateway (checked under SpecWebhook)          *)
(***************************************************************************)
\* The lists the agent can produce for the message of request t.
OwnResponses(t) ==
    {AgentResponses(TextMessage(dreq[t]), SenderId(dreq[t]), o) : o \in {"one", "two"}}

\* C9: every webhook request gets its one response, also when requests
\* overlap on the shared loop: no handler thread is left waiting for ever,
\* and a finished handler has answered 200 with the list the agent produced
\* for its own message, or 500 with an error field and no response list.
C9_OneResponseEach ==
    \A t \in WebhookThreads :
        /\ dpc[t] # "blocked"
        /\ dpc[t] = "done" =>
            \/ /\ dresp[t].status = 200 /\ dresp[t].error = ""
               /\ dresp[t].json \in OwnResponses(t)
               /\ dresp[t].json = fut[t].result
            \/ /\ dresp[t].status = 500 /\ dresp[t].error # ""
               /\ dresp[t].json = <<>>

====
